---------------------------- MODULE Spec2Model ----------------------------
(***************************************************************************)
(* A model of QuEST_common.c: the hardware-agnostic gate dispatch          *)
(* functions (phase gates, axis rotations and their Conj variants), the    *)
(* parameter derivation getAlphaBetaFromRotation, and reportState, which   *)
(* writes a chunk of the state vector to state_rank_<chunkId>.csv.         *)
(*                                                                         *)
(* REAL values are modelled exactly, as elements (a + b*sqrt(2))/d of the  *)
(* field Q(sqrt 2) extended with the IEEE non-finite values; angles are    *)
(* multiples of pi/8, for which cos and sin of the angles used lie in that *)
(* field.  Floating-point rounding is outside the model.                   *)
(***************************************************************************)
EXTENDS Integers, Sequences, FiniteSets, TLC

(***************************************************************************)
(* REAL: <<a, b, d>> stands for (a + b*sqrt(2))/d with d > 0 and           *)
(* gcd(a, b, d) = 1.  d = 0 marks the non-finite values: <<0,0,0>> is NaN, *)
(* <<1,0,0>> is +inf and <<-1,0,0>> is -inf.                               *)
(***************************************************************************)
Abs(n) == IF n < 0 THEN -n ELSE n

RECURSIVE Gcd(_, _)
Gcd(m, n) == IF n = 0 THEN Abs(m) ELSE Gcd(n, Abs(m) % Abs(n))

\* The sign of a + b*sqrt(2), decided by comparing a^2 with 2*b^2.
SignQ(a, b) ==
    IF a >= 0 /\ b >= 0 THEN (IF a = 0 /\ b = 0 THEN 0 ELSE 1)
    ELSE IF a <= 0 /\ b <= 0 THEN -1
    ELSE IF a > 0 THEN (IF a * a > 2 * b * b THEN 1 ELSE -1)
    ELSE (IF 2 * b * b > a * a THEN 1 ELSE -1)

NaN == <<0, 0, 0>>

Norm(a, b, d) ==
    IF d = 0 THEN <<SignQ(a, b), 0, 0>>
    ELSE LET s == IF d < 0 THEN -1 ELSE 1
             g == Gcd(Gcd(a, b), d)
         IN  <<(s * a) \div g, (s * b) \div g, (s * d) \div g>>

R(n) == <<n, 0, 1>>

IsFinite(x) == x[3] # 0

Neg(x) == <<-x[1], -x[2], x[3]>>

Add(x, y) ==
    IF x[3] = 0 /\ y[3] = 0
    THEN (IF x = y THEN x ELSE NaN)
    ELSE Norm(x[1] * y[3] + y[1] * x[3], x[2] * y[3] + y[2] * x[3], x[3] * y[3])

Sub(x, y) == Add(x, Neg(y))

Mul(x, y) ==
    Norm(x[1] * y[1] + 2 * x[2] * y[2], x[1] * y[2] + x[2] * y[1], x[3] * y[3])

\* x / y: x * conj(y) / (y * conj(y)), conj(a + b*sqrt 2) = a - b*sqrt 2.
Div(x, y) ==
    IF y[3] = 0
    THEN (IF x[3] = 0 \/ y[1] = 0 THEN NaN ELSE R(0))
    ELSE IF y[1] = 0 /\ y[2] = 0 THEN Norm(x[1], x[2], 0)
    ELSE LET n == y[1] * y[1] - 2 * y[2] * y[2]
         IN  Norm((x[1] * y[1] - 2 * x[2] * y[2]) * y[3],
                  (x[2] * y[1] - x[1] * y[2]) * y[3],
                  x[3] * n)

RECURSIVE ISqrtFrom(_, _)
ISqrtFrom(n, r) == IF (r + 1) * (r + 1) > n THEN r ELSE ISqrtFrom(n, r + 1)

ISqrt(n) == ISqrtFrom(n, 0)

IsSquare(n) == n >= 0 /\ ISqrt(n) * ISqrt(n) = n

\* sqrt of a rational a/d whose root lies in the field: a*d is a square (the
\* root is rational) or twice a square (the root is a multiple of sqrt 2).
\* The axes of the model are chosen so that no other argument occurs.
Sqrt(x) ==
    IF x[3] = 0 THEN (IF x[1] = 1 THEN x ELSE NaN)
    ELSE IF SignQ(x[1], x[2]) < 0 THEN NaN
    ELSE LET p == x[1] * x[3]
         IN  IF IsSquare(p) THEN Norm(ISqrt(p), 0, x[3])
             ELSE Norm(0, ISqrt(p \div 2), x[3])

\* cos and sin of k*pi/8, for the even k (multiples of pi/4).
Cos(k) ==
    LET m == k % 16
    IN  CASE m = 0 -> R(1)
          [] m = 2 -> <<0, 1, 2>>
          [] m = 4 -> R(0)
          [] m = 6 -> <<0, -1, 2>>
          [] m = 8 -> R(-1)
          [] m = 10 -> <<0, -1, 2>>
          [] m = 12 -> R(0)
          [] m = 14 -> <<0, 1, 2>>

Sin(k) == Cos(k - 4)

\* angle / 2.0
Half(k) == k \div 2

(***************************************************************************)
(* Complex, Vector and the helpers of QuEST_common.c.                      *)
(***************************************************************************)
Complex(re, im) == [real |-> re, imag |-> im]

Vector(vx, vy, vz) == [x |-> vx, y |-> vy, z |-> vz]

getVectorMagnitude(vec) ==
    Sqrt(Add(Add(Mul(vec.x, vec.x), Mul(vec.y, vec.y)), Mul(vec.z, vec.z)))

\* A slip: the vector returned without the division by its magnitude.
getUnitVector_unscaled(vec) == Vector(vec.x, vec.y, vec.z)

getUnitVector(vec) ==
    LET mag == getVectorMagnitude(vec)
    IN  Vector(Div(vec.x, mag), Div(vec.y, mag), Div(vec.z, mag))

getConjugateScalar(scalar) == Complex(scalar.real, Neg(scalar.imag))

CAdd(u, v) == Complex(Add(u.real, v.real), Add(u.imag, v.imag))

CSub(u, v) == Complex(Sub(u.real, v.real), Sub(u.imag, v.imag))

CMul(u, v) ==
    Complex(Sub(Mul(u.real, v.real), Mul(u.imag, v.imag)),
            Add(Mul(u.real, v.imag), Mul(u.imag, v.real)))

\* |z|^2
CNormSq(z) == Add(Mul(z.real, z.real), Mul(z.imag, z.imag))

(***************************************************************************)
(* The external kernels.  A call is recorded as the entry point, the       *)
(* register handed over, the qubit arguments and the Complex parameters.   *)
(***************************************************************************)
KernelCall(fn, qureg, qubits, params) ==
    [fn |-> fn, qureg |-> qureg, qubits |-> qubits, params |-> params]

statevec_phaseShiftByTerm(qureg, targetQubit, term) ==
    <<KernelCall("statevec_phaseShiftByTerm", qureg, <<targetQubit>>, <<term>>)>>

statevec_compactUnitary(qureg, targetQubit, alpha, beta) ==
    <<KernelCall("statevec_compactUnitary", qureg, <<targetQubit>>, <<alpha, beta>>)>>

statevec_controlledCompactUnitary(qureg, controlQubit, targetQubit, alpha, beta) ==
    <<KernelCall("statevec_controlledCompactUnitary", qureg,
                 <<controlQubit, targetQubit>>, <<alpha, beta>>)>>

(***************************************************************************)
(* The gate dispatch functions.  Each is the sequence of kernel calls the  *)
(* function makes, in order.                                               *)
(***************************************************************************)
statevec_phaseShift(qureg, targetQubit, angle) ==
    LET term == Complex(Cos(angle), Sin(angle))
    IN  statevec_phaseShiftByTerm(qureg, targetQubit, term)

statevec_sigmaZ(qureg, targetQubit) ==
    LET term == Complex(R(-1), R(0))
    IN  statevec_phaseShiftByTerm(qureg, targetQubit, term)

statevec_sGate(qureg, targetQubit) ==
    LET term == Complex(R(0), R(1))
    IN  statevec_phaseShiftByTerm(qureg, targetQubit, term)

statevec_tGate(qureg, targetQubit) ==
    LET term == Complex(Div(R(1), Sqrt(R(2))), Div(R(1), Sqrt(R(2))))
    IN  statevec_phaseShiftByTerm(qureg, targetQubit, term)

statevec_sGateConj(qureg, targetQubit) ==
    LET term == Complex(R(0), R(-1))
    IN  statevec_phaseShiftByTerm(qureg, targetQubit, term)

\* A slip: the sign of the imaginary part left out.
statevec_tGateConj_noSign(qureg, targetQubit) ==
    LET term == Complex(Div(R(1), Sqrt(R(2))), Div(R(1), Sqrt(R(2))))
    IN  statevec_phaseShiftByTerm(qureg, targetQubit, term)

statevec_tGateConj(qureg, targetQubit) ==
    LET term == Complex(Div(R(1), Sqrt(R(2))), Div(R(-1), Sqrt(R(2))))
    IN  statevec_phaseShiftByTerm(qureg, targetQubit, term)

getAlphaBetaFromRotation(angle, axis) ==
    LET unitAxis == getUnitVector(axis)
    IN  [alpha |-> Complex(Cos(Half(angle)),
                           Mul(Neg(Sin(Half(angle))), unitAxis.z)),
         beta  |-> Complex(Mul(Sin(Half(angle)), unitAxis.y),
                           Mul(Neg(Sin(Half(angle))), unitAxis.x))]

statevec_rotateAroundAxis(qureg, rotQubit, angle, axis) ==
    LET ab == getAlphaBetaFromRotation(angle, axis)
    IN  statevec_compactUnitary(qureg, rotQubit, ab.alpha, ab.beta)

\* A slip: the angle negated instead of the imaginary parts.
statevec_rotateAroundAxisConj_negAngle(qureg, rotQubit, angle, axis) ==
    LET ab == getAlphaBetaFromRotation(-angle, axis)
    IN  statevec_compactUnitary(qureg, rotQubit, ab.alpha, ab.beta)

statevec_rotateAroundAxisConj(qureg, rotQubit, angle, axis) ==
    LET ab == getAlphaBetaFromRotation(angle, axis)
        alpha == Complex(ab.alpha.real, Mul(ab.alpha.imag, R(-1)))
        beta == Complex(ab.beta.real, Mul(ab.beta.imag, R(-1)))
    IN  statevec_compactUnitary(qureg, rotQubit, alpha, beta)

statevec_controlledRotateAroundAxis(qureg, controlQubit, targetQubit, angle, axis) ==
    LET ab == getAlphaBetaFromRotation(angle, axis)
    IN  statevec_controlledCompactUnitary(qureg, controlQubit, targetQubit,
                                          ab.alpha, ab.beta)

\* A slip: beta.imag *= -1 left out.
statevec_controlledRotateAroundAxisConj_alphaOnly(qureg, controlQubit, targetQubit, angle, axis) ==
    LET ab == getAlphaBetaFromRotation(angle, axis)
        alpha == Complex(ab.alpha.real, Mul(ab.alpha.imag, R(-1)))
    IN  statevec_controlledCompactUnitary(qureg, controlQubit, targetQubit,
                                          alpha, ab.beta)

statevec_controlledRotateAroundAxisConj(qureg, controlQubit, targetQubit, angle, axis) ==
    LET ab == getAlphaBetaFromRotation(angle, axis)
        alpha == Complex(ab.alpha.real, Mul(ab.alpha.imag, R(-1)))
        beta == Complex(ab.beta.real, Mul(ab.beta.imag, R(-1)))
    IN  statevec_controlledCompactUnitary(qureg, controlQubit, targetQubit,
                                          alpha, beta)

statevec_rotateX(qureg, rotQubit, angle) ==
    LET unitAxis == Vector(R(1), R(0), R(0))
    IN  statevec_rotateAroundAxis(qureg, rotQubit, angle, unitAxis)

\* A slip: the axis of rotateX copied.
statevec_rotateY_axisX(qureg, rotQubit, angle) ==
    LET unitAxis == Vector(R(1), R(0), R(0))
    IN  statevec_rotateAroundAxis(qureg, rotQubit, angle, unitAxis)

statevec_rotateY(qureg, rotQubit, angle) ==
    LET unitAxis == Vector(R(0), R(1), R(0))
    IN  statevec_rotateAroundAxis(qureg, rotQubit, angle, unitAxis)

statevec_rotateZ(qureg, rotQubit, angle) ==
    LET unitAxis == Vector(R(0), R(0), R(1))
    IN  statevec_rotateAroundAxis(qureg, rotQubit, angle, unitAxis)

\* A slip: the control and the target qubit handed over in the wrong order.
statevec_controlledRotateX_swapped(qureg, controlQubit, targetQubit, angle) ==
    LET unitAxis == Vector(R(1), R(0), R(0))
    IN  statevec_controlledRotateAroundAxis(qureg, targetQubit, controlQubit,
                                            angle, unitAxis)

statevec_controlledRotateX(qureg, controlQubit, targetQubit, angle) ==
    LET unitAxis == Vector(R(1), R(0), R(0))
    IN  statevec_controlledRotateAroundAxis(qureg, controlQubit, targetQubit,
                                            angle, unitAxis)

statevec_controlledRotateY(qureg, controlQubit, targetQubit, angle) ==
    LET unitAxis == Vector(R(0), R(1), R(0))
    IN  statevec_controlledRotateAroundAxis(qureg, controlQubit, targetQubit,
                                            angle, unitAxis)

statevec_controlledRotateZ(qureg, controlQubit, targetQubit, angle) ==
    LET unitAxis == Vector(R(0), R(0), R(1))
    IN  statevec_controlledRotateAroundAxis(qureg, controlQubit, targetQubit,
                                            angle, unitAxis)

(***************************************************************************)
(* Bounds and input sets.                                                  *)
(***************************************************************************)
\* numQubitsInStateVec of the register
NumQubits == 2

\* the register is split over 2^LogNumChunks chunks
LogNumChunks == 1

\* gate functions invoked on the register in one behaviour of Spec
MaxOps == 1

\* gate functions invoked on the register in one behaviour of SpecAxis
MaxAxisOps == 2

\* file-system failures (a failing fopen, fprintf or fclose) in one behaviour
MaxFailures == 1

RECURSIVE Pow2(_)
Pow2(n) == IF n = 0 THEN 1 ELSE 2 * Pow2(n - 1)

NumAmps == Pow2(NumQubits)

NumChunks == Pow2(LogNumChunks)

NumAmpsPerChunk == NumAmps \div NumChunks

Chunks == 0 .. NumChunks - 1

Qubits == 0 .. NumQubits - 1

\* angles in units of pi/8: 0, pi/2, pi and -pi/2, for which both the angle
\* and its half are multiples of pi/4.
Angles == {0, 4, 8, -4}

Axes ==
    {Vector(R(1), R(0), R(0)), Vector(R(0), R(1), R(0)), Vector(R(0), R(0), R(1)),
     Vector(R(1), R(2), R(2)), Vector(R(0), R(0), R(0))}

NoAxis == Vector(R(0), R(0), R(0))

(***************************************************************************)
(* The register.  stateVec[c] is chunk c's local partition: two parallel   *)
(* sequences real and imag; local index i of the code is position i + 1.   *)
(* Local index i of chunk c is global index c*numAmpsPerChunk + i.         *)
(***************************************************************************)
GlobalVec(sv) ==
    [g \in 0 .. NumAmps - 1 |->
        Complex(sv[g \div NumAmpsPerChunk].real[(g % NumAmpsPerChunk) + 1],
                sv[g \div NumAmpsPerChunk].imag[(g % NumAmpsPerChunk) + 1])]

SplitVec(v) ==
    [c \in Chunks |->
        [real |-> [i \in 1 .. NumAmpsPerChunk |-> v[c * NumAmpsPerChunk + i - 1].real],
         imag |-> [i \in 1 .. NumAmpsPerChunk |-> v[c * NumAmpsPerChunk + i - 1].imag]]]

\* initStateZero: amplitude 1 at index 0
ZeroState == [g \in 0 .. NumAmps - 1 |-> Complex(IF g = 0 THEN R(1) ELSE R(0), R(0))]

\* initStateDebug: amplitude g is (2g/10, (2g+1)/10)
DebugState == [g \in 0 .. NumAmps - 1 |-> Complex(Norm(2 * g, 0, 10), Norm(2 * g + 1, 0, 10))]

InitVecs == {ZeroState, DebugState}

\* a normalised state whose amplitudes 1/3, 2/3 and -2i/3 have no finite
\* decimal expansion
ThirdsState ==
    [g \in 0 .. NumAmps - 1 |->
        Complex(IF g \in {0, 1} THEN Norm(g + 1, 0, 3) ELSE R(0),
                IF g = NumAmps - 1 THEN Norm(-2, 0, 3) ELSE R(0))]

(***************************************************************************)
(* The effect of the external kernels on the register.                     *)
(***************************************************************************)
Bit(i, q) == (i \div Pow2(q)) % 2

\* [alpha, -conj(beta); beta, conj(alpha)] on each pair differing in bit t,
\* where ctl holds (ctl = -1: everywhere).
CompactUnitaryEffect(v, ctl, t, alpha, beta) ==
    [i \in DOMAIN v |->
        IF ctl >= 0 /\ Bit(i, ctl) = 0 THEN v[i]
        ELSE IF Bit(i, t) = 0
             THEN CSub(CMul(alpha, v[i]),
                       CMul(getConjugateScalar(beta), v[i + Pow2(t)]))
             ELSE CAdd(CMul(beta, v[i - Pow2(t)]),
                       CMul(getConjugateScalar(alpha), v[i]))]

PhaseShiftByTermEffect(v, t, term) ==
    [i \in DOMAIN v |-> IF Bit(i, t) = 1 THEN CMul(term, v[i]) ELSE v[i]]

KernelEffect(sv, call) ==
    LET v == GlobalVec(sv)
    IN  CASE call.fn = "statevec_phaseShiftByTerm" ->
                SplitVec(PhaseShiftByTermEffect(v, call.qubits[1], call.params[1]))
          [] call.fn = "statevec_compactUnitary" ->
                SplitVec(CompactUnitaryEffect(v, -1, call.qubits[1],
                                              call.params[1], call.params[2]))
          [] call.fn = "statevec_controlledCompactUnitary" ->
                SplitVec(CompactUnitaryEffect(v, call.qubits[1], call.qubits[2],
                                              call.params[1], call.params[2]))

RECURSIVE ApplyCalls(_, _)
ApplyCalls(sv, calls) ==
    IF calls = <<>> THEN sv
    ELSE ApplyCalls(KernelEffect(sv, Head(calls)), Tail(calls))

(***************************************************************************)
(* reportState's output.  A file is a sequence of lines; a line is the     *)
(* header or two formatted numbers.                                        *)
(***************************************************************************)
\* A slip: the same file name on every chunk.
filename_rank0(chunkId) == <<"state_rank_", 0, ".csv">>

\* sprintf(filename, "state_rank_%d.csv", qureg.chunkId)
filename(chunkId) == <<"state_rank_", chunkId, ".csv">>

\* The files of the working directory.
FileNames == {<<"state_rank_", c, ".csv">> : c \in Chunks}

\* Three more decimal digits of r/d: <<the digits, the remainder>>.
Digits3(r, d) == <<(r * 1000) \div d, (r * 1000) % d>>

\* "%.12f" of a double: the sign, the integer part and the twelve decimals in
\* four groups of three digits, rounded to nearest, ties to even; "nan",
\* "inf" and "-inf" for the non-finite values.  Defined for the rational
\* values (x[2] = 0) of small denominator, which are the values the
\* registers written here hold.
FormatF12(x) ==
    CASE x[3] = 0 /\ x[1] = 0 -> <<"nan">>
      [] x[3] = 0 /\ x[1] > 0 -> <<"inf">>
      [] x[3] = 0 /\ x[1] < 0 -> <<"-inf">>
      [] x[3] # 0 /\ x[2] = 0 ->
            LET d == x[3]
                n == Abs(x[1])
                g1 == Digits3(n % d, d)
                g2 == Digits3(g1[2], d)
                g3 == Digits3(g2[2], d)
                g4 == Digits3(g3[2], d)
                up == 2 * g4[2] > d \/ (2 * g4[2] = d /\ g4[1] % 2 = 1)
                f4 == g4[1] + (IF up THEN 1 ELSE 0)
                f3 == g3[1] + f4 \div 1000
                f2 == g2[1] + f3 \div 1000
                f1 == g1[1] + f2 \div 1000
            IN  <<IF x[1] < 0 THEN "-" ELSE "", n \div d + f1 \div 1000,
                  f1 % 1000, f2 % 1000, f3 % 1000, f4 % 1000>>

\* "real, imag\n"
HeaderLine == <<"real, imag">>

\* "%.12f, %.12f\n" of stateVec.real[index] and stateVec.imag[index]
DataLine(sv, index) == <<FormatF12(sv.real[index + 1]), FormatF12(sv.imag[index + 1])>>

\* A stream writes a line at its position: over the line there, at the end,
\* or past the end, leaving empty lines between.
RECURSIVE Pad(_, _)
Pad(content, len) == IF Len(content) >= len THEN content ELSE Pad(Append(content, <<>>), len)

WriteAt(content, pos, line) ==
    IF pos < Len(content) THEN [content EXCEPT ![pos + 1] = line]
    ELSE Append(Pad(content, pos), line)

NULL == [status |-> "NULL", name |-> <<>>, pos |-> 0]

(***************************************************************************)
(* State.                                                                  *)
(***************************************************************************)
VARIABLES
    stateVec,      \* the register's amplitudes, per chunk
    controlQubit,  \* the arguments the caller passes to the gate functions
    targetQubit,
    angle,
    axis,
    log,           \* one entry per gate function invoked, in order
    pc,            \* per chunk: where its call of reportState stands
    state,         \* per chunk: reportState's FILE *state
    index,         \* per chunk: reportState's loop index
    files,         \* the content of each file
    io,            \* per chunk: what happened in its file operations
    failures       \* file-system failures so far

gateVars == <<controlQubit, targetQubit, angle, axis, log>>

reportVars == <<pc, state, index, files, io, failures>>

vars == <<stateVec, controlQubit, targetQubit, angle, axis, log,
          pc, state, index, files, io, failures>>

QUREG == "qureg"

\* A log entry: the function invoked, the kernel calls it made, and the
\* register on entry.
LogEntry(name, calls) == [name |-> name, calls |-> calls, entry |-> stateVec]

InitRegister == \E v \in InitVecs : stateVec = SplitVec(v)

NoIo == [failed |-> FALSE, badUse |-> FALSE, writeAfterFailure |-> FALSE]

InitReport ==
    /\ pc = [c \in Chunks |-> "fopen"]
    /\ state = [c \in Chunks |-> NULL]
    /\ index = [c \in Chunks |-> 0]
    /\ io = [c \in Chunks |-> NoIo]
    /\ failures = 0

Init ==
    /\ InitRegister
    /\ controlQubit \in Qubits
    /\ targetQubit \in Qubits \ {controlQubit}
    /\ angle \in Angles
    /\ axis \in Axes
    /\ log = <<>>
    /\ InitReport
    /\ files = [f \in FileNames |-> <<>>]

\* One invocation of a gate function: the kernel calls it makes act on the
\* register in order.
Invoke(name, calls) ==
    /\ log' = Append(log, LogEntry(name, calls))
    /\ stateVec' = ApplyCalls(stateVec, calls)
    /\ UNCHANGED <<controlQubit, targetQubit, angle, axis>>
    /\ UNCHANGED reportVars

PhaseShift ==
    Invoke("statevec_phaseShift", statevec_phaseShift(QUREG, targetQubit, angle))

SigmaZ ==
    Invoke("statevec_sigmaZ", statevec_sigmaZ(QUREG, targetQubit))

SGate ==
    Invoke("statevec_sGate", statevec_sGate(QUREG, targetQubit))

TGate ==
    Invoke("statevec_tGate", statevec_tGate(QUREG, targetQubit))

SGateConj ==
    Invoke("statevec_sGateConj", statevec_sGateConj(QUREG, targetQubit))

TGateConj ==
    Invoke("statevec_tGateConj", statevec_tGateConj(QUREG, targetQubit))

RotateX ==
    Invoke("statevec_rotateX", statevec_rotateX(QUREG, targetQubit, angle))

RotateY ==
    Invoke("statevec_rotateY", statevec_rotateY(QUREG, targetQubit, angle))

RotateZ ==
    Invoke("statevec_rotateZ", statevec_rotateZ(QUREG, targetQubit, angle))

RotateAroundAxis ==
    Invoke("statevec_rotateAroundAxis",
           statevec_rotateAroundAxis(QUREG, targetQubit, angle, axis))

RotateAroundAxisConj ==
    Invoke("statevec_rotateAroundAxisConj",
           statevec_rotateAroundAxisConj(QUREG, targetQubit, angle, axis))

ControlledRotateAroundAxis ==
    Invoke("statevec_controlledRotateAroundAxis",
           statevec_controlledRotateAroundAxis(QUREG, controlQubit, targetQubit,
                                               angle, axis))

ControlledRotateAroundAxisConj ==
    Invoke("statevec_controlledRotateAroundAxisConj",
           statevec_controlledRotateAroundAxisConj(QUREG, controlQubit, targetQubit,
                                                   angle, axis))

ControlledRotateX ==
    Invoke("statevec_controlledRotateX",
           statevec_controlledRotateX(QUREG, controlQubit, targetQubit, angle))

ControlledRotateY ==
    Invoke("statevec_controlledRotateY",
           statevec_controlledRotateY(QUREG, controlQubit, targetQubit, angle))

ControlledRotateZ ==
    Invoke("statevec_controlledRotateZ",
           statevec_controlledRotateZ(QUREG, controlQubit, targetQubit, angle))

Next ==
    \/ Len(log) < MaxOps /\ PhaseShift
    \/ Len(log) < MaxOps /\ SigmaZ
    \/ Len(log) < MaxOps /\ SGate
    \/ Len(log) < MaxOps /\ TGate
    \/ Len(log) < MaxOps /\ SGateConj
    \/ Len(log) < MaxOps /\ TGateConj
    \/ Len(log) < MaxOps /\ RotateX
    \/ Len(log) < MaxOps /\ RotateY
    \/ Len(log) < MaxOps /\ RotateZ
    \/ Len(log) < MaxOps /\ RotateAroundAxis
    \/ Len(log) < MaxOps /\ RotateAroundAxisConj
    \/ Len(log) < MaxOps /\ ControlledRotateAroundAxis
    \/ Len(log) < MaxOps /\ ControlledRotateAroundAxisConj
    \/ Len(log) < MaxOps /\ ControlledRotateX
    \/ Len(log) < MaxOps /\ ControlledRotateY
    \/ Len(log) < MaxOps /\ ControlledRotateZ

Spec == Init /\ [][Next]_vars

\* The rotations about an axis and their Conj variants alone.
NextAxis ==
    \/ Len(log) < MaxAxisOps /\ RotateAroundAxis
    \/ Len(log) < MaxAxisOps /\ RotateAroundAxisConj
    \/ Len(log) < MaxAxisOps /\ ControlledRotateAroundAxis
    \/ Len(log) < MaxAxisOps /\ ControlledRotateAroundAxisConj

SpecAxis == Init /\ [][NextAxis]_vars

(***************************************************************************)
(* reportState, run by every chunk on its own partition.                   *)
(***************************************************************************)
\* fprintf(state, ...) of one line by chunk c, which then goes to nextPc.
\* On a null stream the behaviour is undefined: the process dies, or the
\* call returns without effect.  On an open stream the line is written, or
\* the write fails.
Fprintf(c, line, nextPc) ==
    \/ /\ state[c].status = "NULL"
       /\ io' = [io EXCEPT ![c].badUse = TRUE]
       /\ \/ pc' = [pc EXCEPT ![c] = "crashed"]
          \/ pc' = [pc EXCEPT ![c] = nextPc]
       /\ UNCHANGED <<state, files, failures>>
    \/ /\ state[c].status = "open"
       /\ files' = [files EXCEPT ![state[c].name] = WriteAt(@, state[c].pos, line)]
       /\ state' = [state EXCEPT ![c].pos = @ + 1]
       /\ io' = [io EXCEPT ![c].writeAfterFailure = @ \/ io[c].failed]
       /\ pc' = [pc EXCEPT ![c] = nextPc]
       /\ UNCHANGED failures
    \/ /\ state[c].status = "open"
       /\ failures < MaxFailures
       /\ failures' = failures + 1
       /\ io' = [io EXCEPT ![c].failed = TRUE,
                           ![c].writeAfterFailure = @ \/ io[c].failed]
       /\ pc' = [pc EXCEPT ![c] = nextPc]
       /\ UNCHANGED <<state, files>>

\* lines 114-115: the file is created or truncated, or fopen returns NULL
Fopen(c) ==
    /\ pc[c] = "fopen"
    /\ \/ /\ state' = [state EXCEPT ![c] = [status |-> "open", name |-> filename(c), pos |-> 0]]
          /\ files' = [files EXCEPT ![filename(c)] = <<>>]
          /\ UNCHANGED <<io, failures>>
       \/ /\ failures < MaxFailures
          /\ failures' = failures + 1
          /\ state' = [state EXCEPT ![c] = NULL]
          /\ io' = [io EXCEPT ![c].failed = TRUE]
          /\ UNCHANGED files
    /\ pc' = [pc EXCEPT ![c] = "header"]
    /\ UNCHANGED <<index, stateVec, gateVars>>

\* A slip: the header written by every chunk.
Header_everyChunk(c) ==
    /\ pc[c] = "header"
    /\ Fprintf(c, HeaderLine, "loop")
    /\ UNCHANGED <<index, stateVec, gateVars>>

\* line 116
Header(c) ==
    /\ pc[c] = "header"
    /\ IF c = 0
       THEN Fprintf(c, HeaderLine, "loop")
       ELSE /\ pc' = [pc EXCEPT ![c] = "loop"]
            /\ UNCHANGED <<state, files, io, failures>>
    /\ UNCHANGED <<index, stateVec, gateVars>>

\* lines 118-124
Loop(c) ==
    /\ pc[c] = "loop"
    /\ IF index[c] < NumAmpsPerChunk
       THEN /\ Fprintf(c, DataLine(stateVec[c], index[c]), "loop")
            /\ index' = [index EXCEPT ![c] = @ + 1]
       ELSE /\ pc' = [pc EXCEPT ![c] = "fclose"]
            /\ UNCHANGED <<state, files, io, failures, index>>
    /\ UNCHANGED <<stateVec, gateVars>>

\* line 125: fclose of a null stream is undefined like fprintf; fclose of an
\* open stream closes it, also when it reports a failure.
Fclose(c) ==
    /\ pc[c] = "fclose"
    /\ \/ /\ state[c].status = "NULL"
          /\ io' = [io EXCEPT ![c].badUse = TRUE]
          /\ \/ pc' = [pc EXCEPT ![c] = "crashed"]
             \/ pc' = [pc EXCEPT ![c] = "done"]
          /\ UNCHANGED <<state, failures>>
       \/ /\ state[c].status = "open"
          /\ state' = [state EXCEPT ![c].status = "closed"]
          /\ pc' = [pc EXCEPT ![c] = "done"]
          /\ UNCHANGED <<io, failures>>
       \/ /\ state[c].status = "open"
          /\ failures < MaxFailures
          /\ failures' = failures + 1
          /\ state' = [state EXCEPT ![c].status = "closed"]
          /\ io' = [io EXCEPT ![c].failed = TRUE]
          /\ pc' = [pc EXCEPT ![c] = "done"]
    /\ UNCHANGED <<files, index, stateVec, gateVars>>

reportState(c) ==
    \/ Fopen(c)
    \/ Header(c)
    \/ Loop(c)
    \/ Fclose(c)

NextReport == \E c \in Chunks : reportState(c)

\* Before the chunks report, the files of the directory are absent or hold
\* an earlier run's lines.
InitFiles ==
    \E old \in {<<>>, <<HeaderLine, HeaderLine>>} : files = [f \in FileNames |-> old]

InitR ==
    /\ \E v \in InitVecs \cup {ThirdsState} : stateVec = SplitVec(v)
    /\ controlQubit = 0 /\ targetQubit = 1 /\ angle = 0 /\ axis = NoAxis
    /\ log = <<>>
    /\ InitReport
    /\ InitFiles

SpecReport == InitR /\ [][NextReport]_vars
(***************************************************************************)
(* Properties of the gate dispatch functions.                              *)
(***************************************************************************)
SingleQubitGates ==
    {"statevec_phaseShift", "statevec_sigmaZ", "statevec_sGate", "statevec_tGate",
     "statevec_sGateConj", "statevec_tGateConj", "statevec_rotateX",
     "statevec_rotateY", "statevec_rotateZ", "statevec_rotateAroundAxis",
     "statevec_rotateAroundAxisConj"}

ControlledGates ==
    {"statevec_controlledRotateAroundAxis", "statevec_controlledRotateAroundAxisConj",
     "statevec_controlledRotateX", "statevec_controlledRotateY",
     "statevec_controlledRotateZ"}

\* The register when the i-th invocation returned.
After(i) == IF i = Len(log) THEN stateVec ELSE log[i + 1].entry

ZeroAxis == axis.x = R(0) /\ axis.y = R(0) /\ axis.z = R(0)

\* C5: every gate dispatch function makes exactly one kernel call, on the
\* register and the qubits it was given (target alone for the single-qubit
\* functions, control and target for the controlled ones), and the register
\* on return is the register on entry changed by that one call.
C5_OneKernelCall ==
    \A i \in 1 .. Len(log) :
        /\ Len(log[i].calls) = 1
        /\ log[i].calls[1].qureg = QUREG
        /\ log[i].name \in SingleQubitGates => log[i].calls[1].qubits = <<targetQubit>>
        /\ log[i].name \in ControlledGates =>
              log[i].calls[1].qubits = <<controlQubit, targetQubit>>
        /\ After(i) = KernelEffect(log[i].entry, log[i].calls[1])

\* A controlled rotation has returned and its kernel call changed amplitudes.
C5_Witness ==
    \E i \in 1 .. Len(log) :
        /\ log[i].name = "statevec_controlledRotateX"
        /\ After(i) # log[i].entry

NegatedImag(call, fwd) ==
    /\ call.fn = fwd.fn
    /\ call.qureg = fwd.qureg
    /\ call.qubits = fwd.qubits
    /\ Len(call.params) = 2
    /\ \A k \in 1 .. 2 :
          /\ call.params[k].real = fwd.params[k].real
          /\ call.params[k].imag = Neg(fwd.params[k].imag)

\* C7: the Conj variants call the kernel entry point of their non-Conj
\* counterparts, with the same register and qubits, and with the
\* counterpart's alpha and beta with the imaginary parts negated and the real
\* parts kept.
C7_ConjNegatesImag ==
    \A i \in 1 .. Len(log) :
        /\ log[i].name = "statevec_rotateAroundAxisConj" =>
              /\ Len(log[i].calls) = 1
              /\ log[i].calls[1].fn = "statevec_compactUnitary"
              /\ NegatedImag(log[i].calls[1],
                     statevec_rotateAroundAxis(QUREG, targetQubit, angle, axis)[1])
        /\ log[i].name = "statevec_controlledRotateAroundAxisConj" =>
              /\ Len(log[i].calls) = 1
              /\ log[i].calls[1].fn = "statevec_controlledCompactUnitary"
              /\ NegatedImag(log[i].calls[1],
                     statevec_controlledRotateAroundAxis(QUREG, controlQubit,
                         targetQubit, angle, axis)[1])

\* rotateAroundAxisConj has returned, and the beta it passed has a non-zero
\* real and a non-zero imaginary part.
C7_Witness ==
    \E i \in 1 .. Len(log) :
        /\ log[i].name = "statevec_rotateAroundAxisConj"
        /\ log[i].calls[1].params[2].real # R(0)
        /\ log[i].calls[1].params[2].imag # R(0)
        /\ IsFinite(log[i].calls[1].params[2].imag)

UnitX == Vector(R(1), R(0), R(0))

UnitY == Vector(R(0), R(1), R(0))

UnitZ == Vector(R(0), R(0), R(1))

FixedAxisOf(name) ==
    CASE name \in {"statevec_rotateX", "statevec_controlledRotateX"} -> UnitX
      [] name \in {"statevec_rotateY", "statevec_controlledRotateY"} -> UnitY
      [] name \in {"statevec_rotateZ", "statevec_controlledRotateZ"} -> UnitZ

\* C8: rotateX, rotateY and rotateZ make the kernel call rotateAroundAxis
\* makes for the axes (1,0,0), (0,1,0) and (0,0,1), and controlledRotateX/Y/Z
\* the call controlledRotateAroundAxis makes for them.
C8_FixedAxisRotations ==
    \A i \in 1 .. Len(log) :
        /\ log[i].name \in {"statevec_rotateX", "statevec_rotateY", "statevec_rotateZ"} =>
              log[i].calls =
                  statevec_rotateAroundAxis(QUREG, targetQubit, angle,
                                            FixedAxisOf(log[i].name))
        /\ log[i].name \in {"statevec_controlledRotateX", "statevec_controlledRotateY",
                            "statevec_controlledRotateZ"} =>
              log[i].calls =
                  statevec_controlledRotateAroundAxis(QUREG, controlQubit, targetQubit,
                                                      angle, FixedAxisOf(log[i].name))

\* rotateY has returned from a rotation by an angle whose half has a non-zero
\* sine, so that its call differs from those of rotateX and rotateZ.
C8_Witness ==
    \E i \in 1 .. Len(log) :
        /\ log[i].name = "statevec_rotateY"
        /\ log[i].calls[1].params[2].real # R(0)
        /\ log[i].calls # statevec_rotateAroundAxis(QUREG, targetQubit, angle, UnitX)
        /\ log[i].calls # statevec_rotateAroundAxis(QUREG, targetQubit, angle, UnitZ)

\* t is 1/sqrt(2): positive, with square 1/2.
IsInvSqrt2(t) == SignQ(t[1], t[2]) > 0 /\ IsFinite(t) /\ Mul(t, t) = Norm(1, 0, 2)

TermOf(e) == e.calls[1].params[1]

PhaseGates ==
    {"statevec_phaseShift", "statevec_sigmaZ", "statevec_sGate", "statevec_tGate",
     "statevec_sGateConj", "statevec_tGateConj"}

\* C9: each phase gate hands the phase-shift kernel the term of the table:
\* Z (-1,0), S (0,1), T (1/sqrt 2, 1/sqrt 2), S-adjoint (0,-1), T-adjoint
\* (1/sqrt 2, -1/sqrt 2), phaseShift(angle) (cos angle, sin angle); the
\* adjoint terms are the conjugates of the S and T terms, phaseShift(0)
\* passes (1,0) and phaseShift(pi) the term of Z.
C9_PhaseTerms ==
    \A i \in 1 .. Len(log) :
        LET e == log[i] IN
        /\ e.name \in PhaseGates =>
              /\ Len(e.calls) = 1
              /\ e.calls[1].fn = "statevec_phaseShiftByTerm"
              /\ Len(e.calls[1].params) = 1
        /\ e.name = "statevec_sigmaZ" => TermOf(e) = Complex(R(-1), R(0))
        /\ e.name = "statevec_sGate" => TermOf(e) = Complex(R(0), R(1))
        /\ e.name = "statevec_tGate" =>
              /\ IsInvSqrt2(TermOf(e).real)
              /\ TermOf(e).imag = TermOf(e).real
        /\ e.name = "statevec_sGateConj" =>
              /\ TermOf(e) = Complex(R(0), R(-1))
              /\ <<e.calls[1]>> = statevec_phaseShiftByTerm(QUREG, targetQubit,
                     getConjugateScalar(TermOf([calls |-> statevec_sGate(QUREG, targetQubit)])))
        /\ e.name = "statevec_tGateConj" =>
              /\ IsInvSqrt2(TermOf(e).real)
              /\ TermOf(e).imag = Neg(TermOf(e).real)
              /\ <<e.calls[1]>> = statevec_phaseShiftByTerm(QUREG, targetQubit,
                     getConjugateScalar(TermOf([calls |-> statevec_tGate(QUREG, targetQubit)])))
        /\ e.name = "statevec_phaseShift" =>
              /\ TermOf(e) = Complex(Cos(angle), Sin(angle))
              /\ angle = 0 => TermOf(e) = Complex(R(1), R(0))
              /\ angle = 4 => TermOf(e) = Complex(R(0), R(1))
              /\ angle = 8 => e.calls = statevec_sigmaZ(QUREG, targetQubit)

\* phaseShift(pi) has returned.
C9_Witness ==
    \E i \in 1 .. Len(log) :
        /\ log[i].name = "statevec_phaseShift"
        /\ angle = 8
        /\ TermOf(log[i]) = Complex(R(-1), R(0))

UnitPair(alpha, beta) == Add(CNormSq(alpha), CNormSq(beta)) = R(1)

RotationsAboutAxis ==
    {"statevec_rotateAroundAxis", "statevec_rotateAroundAxisConj",
     "statevec_controlledRotateAroundAxis", "statevec_controlledRotateAroundAxisConj"}

FixedAxisRotations ==
    {"statevec_rotateX", "statevec_rotateY", "statevec_rotateZ",
     "statevec_controlledRotateX", "statevec_controlledRotateY",
     "statevec_controlledRotateZ"}

\* C10: for a non-zero axis, |alpha|^2 + |beta|^2 = 1 for the pair
\* getAlphaBetaFromRotation computes and for the pair every rotation
\* function, the Conj variants included, passes to the kernel.
C10_UnitNorm ==
    /\ ~ZeroAxis =>
          UnitPair(getAlphaBetaFromRotation(angle, axis).alpha,
                   getAlphaBetaFromRotation(angle, axis).beta)
    /\ \A i \in 1 .. Len(log) :
          \/ log[i].name \in FixedAxisRotations
          \/ log[i].name \in RotationsAboutAxis /\ ~ZeroAxis
          => UnitPair(log[i].calls[1].params[1], log[i].calls[1].params[2])

\* A Conj rotation about the axis (1,2,2), which is not of unit length, by an
\* angle whose half has a non-zero sine has returned.
C10_Witness ==
    \E i \in 1 .. Len(log) :
        /\ log[i].name = "statevec_controlledRotateAroundAxisConj"
        /\ axis = Vector(R(1), R(2), R(2))
        /\ Sin(Half(angle)) # R(0)

(***************************************************************************)
(* The Conj variant after the rotation (SpecAxis).                         *)
(***************************************************************************)
\* The i-th invocation is `fwd` and the next one `conj`: the arguments of
\* the two are the same.
ThenConj(i, fwd, conj) == log[i].name = fwd /\ log[i + 1].name = conj

RotThenConj(i) ==
    \/ ThenConj(i, "statevec_rotateAroundAxis", "statevec_rotateAroundAxisConj")
    \/ ThenConj(i, "statevec_controlledRotateAroundAxis",
                "statevec_controlledRotateAroundAxisConj")

\* C6 as claimed: for every angle and non-zero axis, a rotation about the
\* axis followed by its Conj variant with the same arguments leaves every
\* amplitude as it was before the two calls.
C6_ConjRestores ==
    \A i \in 1 .. Len(log) - 1 :
        RotThenConj(i) /\ ~ZeroAxis => After(i + 1) = log[i].entry

\* C6 as amended: a rotation about a non-zero axis followed by its Conj
\* variant with the same arguments leaves every amplitude as it was before
\* the two calls when the axis has no y component or the sine of half the
\* angle is zero, that is when the beta passed has no real part.
C6_ConjRestoresWithoutY ==
    \A i \in 1 .. Len(log) - 1 :
        RotThenConj(i) /\ ~ZeroAxis /\ (axis.y = R(0) \/ Sin(Half(angle)) = R(0))
            => After(i + 1) = log[i].entry

\* A rotation about the x axis changed the register and its Conj variant
\* then restored it.
C6_Witness ==
    \E i \in 1 .. Len(log) - 1 :
        /\ ThenConj(i, "statevec_rotateAroundAxis", "statevec_rotateAroundAxisConj")
        /\ axis = UnitX
        /\ After(i) # log[i].entry
        /\ After(i + 1) = log[i].entry

(***************************************************************************)
(* Properties of reportState (SpecReport).                                 *)
(***************************************************************************)
\* state_rank_<c>.csv
Dest(c) == <<"state_rank_", c, ".csv">>

Ended(c) == pc[c] \in {"done", "crashed"}

\* What the caller of reportState, which returns no value, gets to see.
CallerSees(c) ==
    CASE pc[c] = "done" -> "returned"
      [] pc[c] = "crashed" -> "aborted"
      [] OTHER -> "running"

\* C1 as claimed: whatever the outcome of opening and writing, reportState
\* ends with no stream left open and has never written to or closed a stream
\* that was not opened.
C1_ClosedOnAllPaths ==
    \A c \in Chunks :
        Ended(c) => state[c].status # "open" /\ ~io[c].badUse

\* C2 as claimed: after a failing fopen, fprintf or fclose the caller sees
\* that the export failed, and nothing more is written to the stream.
C2_FailurePropagates ==
    \A c \in Chunks :
        /\ io[c].failed /\ Ended(c) => CallerSees(c) # "returned"
        /\ ~io[c].writeAfterFailure

\* The lines a chunk writes: the header on chunk 0, then one line per local
\* amplitude index, ascending.
ExpectedLines(c) ==
    (IF c = 0 THEN <<HeaderLine>> ELSE <<>>)
        \o [k \in 1 .. NumAmpsPerChunk |->
               <<FormatF12(stateVec[c].real[k]), FormatF12(stateVec[c].imag[k])>>]

NoFailure(c) == state[c].status \in {"open", "closed"} /\ ~io[c].failed

\* C3: when nothing fails, the file of a chunk holds at every moment the
\* first lines of: the header if and only if the chunk is chunk 0, then the
\* numAmpsPerChunk data lines in ascending order of the local index; on
\* return it holds them all, N + 1 lines on chunk 0 and N on the others.
C3_LinesInOrder ==
    \A c \in Chunks :
        NoFailure(c) =>
            /\ state[c].pos <= Len(ExpectedLines(c))
            /\ files[Dest(c)] = SubSeq(ExpectedLines(c), 1, state[c].pos)
            /\ pc[c] = "loop" => state[c].pos = (IF c = 0 THEN 1 ELSE 0) + index[c]
            /\ pc[c] = "done" =>
                  /\ files[Dest(c)] = ExpectedLines(c)
                  /\ Len(files[Dest(c)]) = NumAmpsPerChunk + (IF c = 0 THEN 1 ELSE 0)

\* Chunk 0 and another chunk have returned with nothing failed.
C3_Witness ==
    /\ \A c \in Chunks : pc[c] = "done" /\ NoFailure(c)
    /\ Len(files[Dest(0)]) = NumAmpsPerChunk + 1
    /\ files[Dest(0)][1] = HeaderLine
    /\ \E c \in Chunks : c # 0 /\ Len(files[Dest(c)]) = NumAmpsPerChunk

RECURSIVE CountHeaders(_)
CountHeaders(lines) ==
    IF lines = <<>> THEN 0
    ELSE (IF Head(lines) = HeaderLine THEN 1 ELSE 0) + CountHeaders(Tail(lines))

RECURSIVE SumHeaders(_)
SumHeaders(cs) ==
    IF cs = {} THEN 0
    ELSE LET c == CHOOSE d \in cs : TRUE
         IN  CountHeaders(files[Dest(c)]) + SumHeaders(cs \ {c})

\* The data lines of a file: its lines without the headers.
DataLines(lines) == SelectSeq(lines, LAMBDA l : l # HeaderLine)

AllReturned == \A c \in Chunks : pc[c] = "done" /\ NoFailure(c)

\* C4: in every interleaving of the chunks, a chunk's stream is on its own
\* file state_rank_<c>.csv and no two chunks have a stream on the same file;
\* when all have returned with nothing failed there is one header line in
\* all the files together, and global amplitude g is data line
\* g mod numAmpsPerChunk of the file of chunk g div numAmpsPerChunk, which
\* has numAmpsPerChunk data lines.
C4_ChunksDisjoint ==
    /\ \A c \in Chunks : state[c].status # "NULL" => state[c].name = Dest(c)
    /\ \A c, d \in Chunks :
          c # d /\ state[c].status # "NULL" /\ state[d].status # "NULL"
              => state[c].name # state[d].name
    /\ AllReturned =>
          /\ SumHeaders(Chunks) = 1
          /\ \A c \in Chunks : Len(DataLines(files[Dest(c)])) = NumAmpsPerChunk
          /\ \A g \in 0 .. NumAmps - 1 :
                DataLines(files[Dest(g \div NumAmpsPerChunk)])[(g % NumAmpsPerChunk) + 1]
                    = <<FormatF12(GlobalVec(stateVec)[g].real),
                        FormatF12(GlobalVec(stateVec)[g].imag)>>

\* All chunks of a register of more than one chunk have returned with
\* nothing failed, and every file holds its chunk's lines.
C4_Witness ==
    /\ NumChunks > 1
    /\ NumAmpsPerChunk * NumChunks = Pow2(NumQubits)
    /\ AllReturned
    /\ \A c \in Chunks : Len(DataLines(files[Dest(c)])) = NumAmpsPerChunk
=============================================================================
